---- MODULE Spec2Model ----
(***************************************************************************)
(* Stage 2 of the CDE audit pipeline (v3_stage_2.py): candidate loading,   *)
(* embedding and graph checkpoints, similarity-graph construction, Louvain *)
(* community detection and the hub-and-spoke subdivision.                  *)
(*                                                                         *)
(* Scaling.  Weights are kept as exact integers.  Every embedding of the   *)
(* catalogues below has squared L2 norm 2, so faiss.normalize_L2 divides   *)
(* every inner product by 2; the model keeps 2*ip.  The lexical score is   *)
(* kept as 60*jaccard and the boost factors as percentages, so a stored    *)
(* weight is 2*6000 times the float the program stores.  Item IDs are      *)
(* integers; the program's str(ID)/int(node) conversions are inverse to    *)
(* each other on them.                                                     *)
(***************************************************************************)
EXTENDS Integers, Sequences, FiniteSets, TLC

\* ------------------------------------------------------------ bounds
\* Largest number of candidate rows the database hands to a run that may be
\* interrupted and followed by further runs.
MaxItems == 3
\* Largest number of candidate rows of a single uninterrupted run.
MaxNodes == 5

\* ------------------------------------------------- program constants
TOP_K_NEIGHBORS == 20
MAX_SUB_GROUP_SIZE == 200
MIN_ORPHAN_GROUP_SIZE == 100
MIN_HUB_SPOKE_GROUP_SIZE == 10
\* LEXICAL_BOOST_FACTOR = 0.2 and STRUCTURAL_BOOST_FACTOR = 0.15, in percent.
LEXICAL_BOOST_FACTOR == 20
STRUCTURAL_BOOST_FACTOR == 15

\* The tuning parameters of lines 35-38.  The first record is the source's
\* own setting; the others are scaled so that the hub loop, the spoke cut
\* and the orphan chunking all act on catalogues of MaxItems items.
SourceSetting ==
    [topK |-> TOP_K_NEIGHBORS, max |-> MAX_SUB_GROUP_SIZE,
     minOrphan |-> MIN_ORPHAN_GROUP_SIZE, minHub |-> MIN_HUB_SPOKE_GROUP_SIZE]

Settings ==
    { SourceSetting,
      [topK |-> 2, max |-> 3, minOrphan |-> 2, minHub |-> 2],
      [topK |-> 2, max |-> 2, minOrphan |-> 2, minHub |-> 2],
      [topK |-> 2, max |-> 2, minOrphan |-> 3, minHub |-> 2],
      [topK |-> 1, max |-> 3, minOrphan |-> 2, minHub |-> 2],
      [topK |-> 1, max |-> 2, minOrphan |-> 1, minHub |-> 1] }

\* ------------------------------------------------------------ helpers
Max(a, b) == IF a >= b THEN a ELSE b
Min(a, b) == IF a <= b THEN a ELSE b

Range(s) == { s[i] : i \in DOMAIN s }

RECURSIVE SumSeq(_)
SumSeq(s) == IF s = <<>> THEN 0 ELSE Head(s) + SumSeq(Tail(s))

RECURSIVE Flatten(_)
Flatten(ss) == IF ss = <<>> THEN <<>> ELSE Head(ss) \o Flatten(Tail(ss))

\* The sequences that list every element of S exactly once.
Perms(S) ==
    { p \in [1..Cardinality(S) -> S] : \A i, j \in 1..Cardinality(S) : i # j => p[i] # p[j] }

\* s without the elements outside S, order kept.
RECURSIVE Filter(_, _)
Filter(s, S) ==
    IF s = <<>> THEN <<>>
    ELSE IF Head(s) \in S THEN <<Head(s)>> \o Filter(Tail(s), S)
         ELSE Filter(Tail(s), S)

\* ------------------------------------------------------------ the catalogue
\* A string is a sequence of one-character strings.
Lower(c) ==
    CASE c = "A" -> "a" [] c = "B" -> "b" [] c = "C" -> "c" [] OTHER -> c

LowerStr(s) == [i \in DOMAIN s |-> Lower(s[i])]

\* str.split('_'): the pieces between underscores; the empty string splits
\* into one empty piece.
RECURSIVE Split(_, _)
Split(s, cur) ==
    IF s = <<>> THEN <<cur>>
    ELSE IF Head(s) = "_" THEN <<cur>> \o Split(Tail(s), <<>>)
         ELSE Split(Tail(s), Append(cur, Head(s)))

\* A value_format the database leaves NULL.
None == "None"

\* Embedding vectors (rows of the matrix model.encode returns): e_p + sq*e_q
\* in six dimensions, all of squared norm 2.
Vec(p, q, sq) == [k \in 1..6 |-> IF k = p THEN 1 ELSE IF k = q THEN sq ELSE 0]

\* The variable_name column: names that differ in case only in one token,
\* names with some tokens in common, and two rows whose name is ''.
NamePool ==
    << <<"a", "_", "b">>, <<"A", "_", "c">>, <<>>, <<"b">>, <<>> >>

FormatPool == << "int", "int", None, "str", None >>

Cyc(pool, k) == pool[((k - 1) % Len(pool)) + 1]

\* The catalogues a run can meet.  "star": item 1 is close to every other
\* item and the others are mutually orthogonal.  "chain": item i is close to
\* items i-1 and i+1 only.  "same": every item has the same vector.
\* "mixed": two pairs of identical vectors and an item opposed to the first.
Catalogs == {"star", "chain", "same", "mixed"}

VecOf(cat, id) ==
    CASE cat = "star" ->
           IF id = 1 THEN Vec(1, 2, 1)
           ELSE Cyc(<<Vec(1, 3, 1), Vec(1, 3, -1), Vec(2, 4, 1), Vec(2, 4, -1)>>, id - 1)
      [] cat = "chain" ->
           Cyc(<<Vec(1, 2, 1), Vec(2, 3, 1), Vec(3, 4, 1), Vec(4, 5, 1), Vec(5, 6, 1)>>, id)
      [] cat = "same" -> Vec(1, 2, 1)
      [] OTHER ->
           Cyc(<<Vec(1, 2, 1), Vec(1, 2, 1), Vec(3, 4, 1), Vec(3, 4, 1), Vec(3, 4, -1)>>, id)

ItemOf(cat, id) ==
    [ID |-> id, vec |-> VecOf(cat, id),
     variable_name |-> Cyc(NamePool, id), value_format |-> Cyc(FormatPool, id)]

\* ------------------------------------------------------------ graph builder
Dot(u, v) == SumSeq([i \in DOMAIN u |-> u[i] * v[i]])

\* jaccard_similarity dividing by the size of the first token set.
jaccard_similarity_over_first(str1, str2) ==
    LET a == Range(Split(LowerStr(str1), <<>>))
        b == Range(Split(LowerStr(str2), <<>>))
        intersection == Cardinality(a \cap b)
    IN  (60 * intersection) \div Cardinality(a)

\* jaccard_similarity, times 60.
jaccard_similarity(str1, str2) ==
    LET a == Range(Split(LowerStr(str1), <<>>))
        b == Range(Split(LowerStr(str2), <<>>))
        intersection == Cardinality(a \cap b)
        union == Cardinality(a \cup b)
    IN  IF union # 0 THEN (60 * intersection) \div union ELSE 0

structural_score(row, neighbor_row) ==
    IF row.value_format = neighbor_row.value_format THEN 1 ELSE 0

\* combined_weight of lines 120-123 for a neighbour found at inner product ip.
combined_weight(row, neighbor_row, ip) ==
    LET semantic_score == Max(0, ip)
        lexical_score == jaccard_similarity(row.variable_name, neighbor_row.variable_name)
    IN  semantic_score * (6000 + LEXICAL_BOOST_FACTOR * lexical_score
                          + STRUCTURAL_BOOST_FACTOR * 60 * structural_score(row, neighbor_row))

\* A graph: its nodes in insertion order and its edges, a function from
\* two-element node sets to weights.
EmptyGraph == [nodes |-> <<>>, w |-> [e \in {} |-> 0]]

has_edge(Gr, u, v) == {u, v} \in DOMAIN Gr.w

\* G.add_nodes_from without the nodes.
add_nodes_from_nothing(Gr, ids) == Gr

\* G.add_nodes_from(ids): the IDs the graph does not hold yet are appended in
\* the order given.
RECURSIVE add_nodes_from(_, _)
add_nodes_from(Gr, ids) ==
    IF ids = <<>> THEN Gr
    ELSE add_nodes_from(
             IF Head(ids) \in Range(Gr.nodes) THEN Gr
             ELSE [Gr EXCEPT !.nodes = Append(Gr.nodes, Head(ids))],
             Tail(ids))

\* G.add_edge(u, v, weight=weight): both ends become nodes if they are not
\* yet, and the pair's weight is set.
add_edge(Gr, u, v, weight) ==
    [nodes |-> add_nodes_from(Gr, <<u, v>>).nodes,
     w |-> [e \in DOMAIN Gr.w \cup {{u, v}} |-> IF e = {u, v} THEN weight ELSE Gr.w[e]]]

\* index.search(embeddings[i], k): the k stored rows of largest inner product
\* with row i, best first, as <<id, 2*ip>> pairs, padded with the sentinel -1
\* when the index holds fewer than k rows.  faiss does not say which of
\* several equally distant rows it returns.
RECURSIVE BestFirst(_, _)
BestFirst(T, ip) ==
    IF T = {} THEN <<>>
    ELSE LET r == CHOOSE x \in T : \A y \in T : ip[x] > ip[y] \/ (ip[x] = ip[y] /\ x <= y)
         IN  <<r>> \o BestFirst(T \ {r}, ip)

search(ids, emb, i, k) ==
    LET rows == DOMAIN emb
        ip == [r \in rows |-> Dot(emb[i], emb[r])]
        n == Min(k, Len(emb))
        tops == { T \in SUBSET rows :
                    /\ Cardinality(T) = n
                    /\ \A t \in T : \A u \in rows \ T : ip[t] >= ip[u] }
        result(best) ==
            [j \in 1..k |-> IF j <= n THEN <<ids[best[j]], ip[best[j]]>> ELSE <<-1, 0>>]
    IN  { result(BestFirst(T, ip)) : T \in tops }

\* process_neighbors without the test cde_id == neighbor_id of line 116.
RECURSIVE process_neighbors_with_self(_, _, _, _)
process_neighbors_with_self(Gr, cat, cde_id, found) ==
    IF found = <<>> THEN Gr
    ELSE LET neighbor_id == Head(found)[1]
             distance == Head(found)[2]
         IN  IF neighbor_id = -1 \/ has_edge(Gr, cde_id, neighbor_id)
             THEN process_neighbors_with_self(Gr, cat, cde_id, Tail(found))
             ELSE process_neighbors_with_self(
                      add_edge(Gr, cde_id, neighbor_id,
                               combined_weight(ItemOf(cat, cde_id), ItemOf(cat, neighbor_id),
                                               distance)),
                      cat, cde_id, Tail(found))

\* process_neighbors that leaves the loop at the first neighbour it passes
\* over (break for continue in line 116).
RECURSIVE process_neighbors_breaking(_, _, _, _)
process_neighbors_breaking(Gr, cat, cde_id, found) ==
    IF found = <<>> THEN Gr
    ELSE LET neighbor_id == Head(found)[1]
             distance == Head(found)[2]
         IN  IF neighbor_id = -1 THEN process_neighbors_breaking(Gr, cat, cde_id, Tail(found))
             ELSE IF cde_id = neighbor_id \/ has_edge(Gr, cde_id, neighbor_id) THEN Gr
             ELSE process_neighbors_breaking(
                      add_edge(Gr, cde_id, neighbor_id,
                               combined_weight(ItemOf(cat, cde_id), ItemOf(cat, neighbor_id),
                                               distance)),
                      cat, cde_id, Tail(found))

\* process_neighbors that adds the weight of a pair found again to the weight
\* the pair has, instead of passing it over.
RECURSIVE process_neighbors_summing(_, _, _, _)
process_neighbors_summing(Gr, cat, cde_id, found) ==
    IF found = <<>> THEN Gr
    ELSE LET neighbor_id == Head(found)[1]
             distance == Head(found)[2]
             weight == combined_weight(ItemOf(cat, cde_id), ItemOf(cat, neighbor_id), distance)
         IN  IF neighbor_id = -1 \/ cde_id = neighbor_id
             THEN process_neighbors_summing(Gr, cat, cde_id, Tail(found))
             ELSE process_neighbors_summing(
                      add_edge(Gr, cde_id, neighbor_id,
                               IF has_edge(Gr, cde_id, neighbor_id)
                               THEN Gr.w[{cde_id, neighbor_id}] + weight ELSE weight),
                      cat, cde_id, Tail(found))

\* The inner loop of lines 113-124 over one row's search result.
RECURSIVE process_neighbors(_, _, _, _)
process_neighbors(Gr, cat, cde_id, found) ==
    IF found = <<>> THEN Gr
    ELSE LET neighbor_id == Head(found)[1]
             distance == Head(found)[2]
         IN  IF neighbor_id = -1 THEN process_neighbors(Gr, cat, cde_id, Tail(found))
             ELSE IF cde_id = neighbor_id \/ has_edge(Gr, cde_id, neighbor_id)
                  THEN process_neighbors(Gr, cat, cde_id, Tail(found))
             ELSE process_neighbors(
                      add_edge(Gr, cde_id, neighbor_id,
                               combined_weight(ItemOf(cat, cde_id), ItemOf(cat, neighbor_id),
                                               distance)),
                      cat, cde_id, Tail(found))

\* generate_embeddings: one row per candidate, in frame order.
generate_embeddings(cat, df) == [r \in DOMAIN df |-> VecOf(cat, df[r])]

\* The graphs the loop of lines 110-124 can end at from the graphs Gs when it
\* goes on at row i.
RECURSIVE build_rows(_, _, _, _, _, _)
build_rows(Gs, cat, ids, emb, k, i) ==
    IF i > Len(emb) THEN Gs
    ELSE build_rows(
             UNION { { process_neighbors(Gr, cat, ids[i], found) :
                         found \in search(ids, emb, i, k) } : Gr \in Gs },
             cat, ids, emb, k, i + 1)

\* build_similarity_graph(df, embeddings): every ID a node (lines 107-108),
\* then the edge loop over all rows.
build_similarity_graph(cat, ids, emb, k) ==
    build_rows({add_nodes_from(EmptyGraph, ids)}, cat, ids, emb, k, 1)

\* ------------------------------------------------------------ community detection
\* Nodes of S reachable from the nodes of R over positive-weight edges of Gr
\* that stay inside S.
RECURSIVE Reach(_, _, _)
Reach(Gr, S, R) ==
    LET next == R \cup { v \in S : \E u \in R : has_edge(Gr, u, v) /\ Gr.w[{u, v}] > 0 }
    IN  IF next = R THEN R ELSE Reach(Gr, S, next)

Connected(Gr, S) == S # {} /\ Reach(Gr, S, {CHOOSE x \in S : TRUE}) = S

\* The partitions of the node set S into blocks that are connected in Gr.
RECURSIVE ConnectedPartitions(_, _)
ConnectedPartitions(Gr, S) ==
    IF S = {} THEN {{}}
    ELSE LET x == CHOOSE y \in S : \A z \in S : y <= z
         IN  UNION { { {B \cup {x}} \cup P : P \in ConnectedPartitions(Gr, S \ (B \cup {x})) } :
                       B \in { C \in SUBSET (S \ {x}) : Connected(Gr, C \cup {x}) } }

HasPositiveEdge(Gr, v) == \E e \in DOMAIN Gr.w : v \in e /\ Gr.w[e] > 0

\* community_louvain.best_partition(G, weight='weight') followed by the
\* regrouping of lines 139-141.  The call passes no random_state, so the
\* library visits the nodes in an order drawn from the process-global
\* generator and the partition it ends at is one of several.  What every
\* Louvain result has in common: a community is connected by positive
\* edges, and a node is alone iff it has no positive edge (joining a
\* neighbour is a modularity gain for a lone node, and nodes only merge over
\* edges).  partition.items() follows the graph's node order, so each member
\* list is in node order and the communities are in order of their first
\* member; community ids count from 0 in that order.
RECURSIVE InFirstMemberOrder(_, _)
InFirstMemberOrder(nodes, P) ==
    IF nodes = <<>> THEN <<>>
    ELSE LET B == CHOOSE C \in P : Head(nodes) \in C
         IN  <<Filter(nodes, B)>> \o InFirstMemberOrder(Filter(nodes, Range(nodes) \ B), P)

best_partition(Gr) ==
    { InFirstMemberOrder(Gr.nodes, P) :
        P \in { Q \in ConnectedPartitions(Gr, Range(Gr.nodes)) :
                  \A B \in Q : \A v \in B : HasPositiveEdge(Gr, v) => B # {v} } }

\* ------------------------------------------------------------ hub and spoke
\* G.subgraph(members).copy(): the induced subgraph, as a node set and the
\* edges inside it.
subgraph(Gr, S) ==
    [nodes |-> S, w |-> [e \in { d \in DOMAIN Gr.w : d \subseteq S } |-> Gr.w[e]]]

\* remove_nodes_from when line 185 is left out: the working copy keeps the
\* nodes of the accepted group.
remove_nodes_from_none(sub, S) == sub

remove_nodes_from(sub, S) == subgraph(sub, sub.nodes \ S)

adj(sub, v) == { u \in sub.nodes : u # v /\ {u, v} \in DOMAIN sub.w }

\* nx.degree_centrality: degree / (n - 1), and 1 for every node when n <= 1.
\* Kept times (n - 1), the same factor for every node of one call.
degree_centrality(sub) ==
    [v \in sub.nodes |->
        IF Cardinality(sub.nodes) <= 1 THEN 1 ELSE Cardinality(adj(sub, v))]

\* spoke_nodes sorted without reverse=True: the lightest neighbours first.
spoke_nodes_lightest(sub, hub, setting) ==
    LET nbrs == adj(sub, hub)
        m == Min(Cardinality(nbrs), setting.max - 1)
        wt(u) == sub.w[{hub, u}]
    IN  { s \in [1..m -> nbrs] :
            /\ \A i, j \in 1..m : i < j => s[i] # s[j] /\ wt(s[i]) <= wt(s[j])
            /\ \A u \in nbrs \ Range(s) : \A i \in 1..m : wt(s[i]) <= wt(u) }

\* spoke_nodes with the cut of line 165 one too late.
spoke_nodes_cut_late(sub, hub, setting) ==
    LET nbrs == adj(sub, hub)
        m == Min(Cardinality(nbrs), setting.max)
        wt(u) == sub.w[{hub, u}]
    IN  { s \in [1..m -> nbrs] :
            /\ \A i, j \in 1..m : i < j => s[i] # s[j] /\ wt(s[i]) >= wt(s[j])
            /\ \A u \in nbrs \ Range(s) : \A i \in 1..m : wt(s[i]) >= wt(u) }

\* The spoke lists line 164-165 can produce for a hub: its neighbours by
\* descending weight, cut after max - 1.  sorted() is stable, so neighbours
\* of equal weight stay in adjacency order, which the copy of a subgraph view
\* takes from set iteration: any order among equals.
spoke_nodes(sub, hub, setting) ==
    LET nbrs == adj(sub, hub)
        m == Min(Cardinality(nbrs), setting.max - 1)
        wt(u) == sub.w[{hub, u}]
    IN  { s \in [1..m -> nbrs] :
            /\ \A i, j \in 1..m : i < j => s[i] # s[j] /\ wt(s[i]) >= wt(s[j])
            /\ \A u \in nbrs \ Range(s) : \A i \in 1..m : wt(s[i]) >= wt(u) }

potential_groups(sub, hub, setting) ==
    { <<hub>> \o s : s \in spoke_nodes(sub, hub, setting) }

\* is_valid_group with > for >= in line 169.
is_valid_group_above(group, setting) == Len(group) > setting.minHub

\* Line 169.
is_valid_group(group, setting) == Len(group) >= setting.minHub

\* first_valid_hubs without reverse=True in line 161: the least central nodes
\* are tried first.
first_valid_hubs_ascending(sub, setting) ==
    LET centrality == degree_centrality(sub)
        ok(v) == \E g \in potential_groups(sub, v, setting) : is_valid_group(g, setting)
    IN  { h \in sub.nodes :
            ok(h) /\ \A v \in sub.nodes : centrality[v] < centrality[h] => ~ok(v) }

\* The hubs the search of lines 161-172 can stop at: sorted_hubs lists the
\* nodes by descending centrality (equal ones in node order of the copy, any
\* order), and the loop takes the first whose group is large enough.  So a
\* node can be taken iff its group is large enough and no node of strictly
\* larger centrality has a large enough group.
first_valid_hubs(sub, setting) ==
    LET centrality == degree_centrality(sub)
        ok(v) == \E g \in potential_groups(sub, v, setting) : is_valid_group(g, setting)
    IN  { h \in sub.nodes :
            ok(h) /\ \A v \in sub.nodes : centrality[v] > centrality[h] => ~ok(v) }

\* remaining_after that takes nothing out.
remaining_after_nothing(remaining, group) == remaining

\* remaining_after with only the hub taken out.
remaining_after_hub_only(remaining, group) == remaining \ {Head(group)}

\* Lines 183-184.
remaining_after(remaining, group) == remaining \ Range(group)

\* loop_continues with > for >= in line 154.
loop_continues_above(remaining, setting) == Cardinality(remaining) > setting.minOrphan

\* Line 154.
loop_continues(remaining, setting) == Cardinality(remaining) >= setting.minOrphan

\* hub_group listing the spokes only as members.
hub_group_spokes_only(counter, hub, group) ==
    [group_id |-> <<"grp", counter>>, group_type |-> "hub_and_spoke",
     hub_cde_id |-> hub, member_cde_ids |-> Tail(group)]

hub_group(counter, hub, group) ==
    [group_id |-> <<"grp", counter>>, group_type |-> "hub_and_spoke",
     hub_cde_id |-> hub, member_cde_ids |-> group]

orphan_group(counter, batch) ==
    [group_id |-> <<"grp", counter>>, group_type |-> "orphan", member_cde_ids |-> batch]

\* orphan_batches with the step of line 189 left out: a batch starts at every
\* orphan.
RECURSIVE orphan_batches_every_start(_, _, _)
orphan_batches_every_start(orphans, counter, setting) ==
    IF orphans = <<>> THEN <<>>
    ELSE LET k == Min(Len(orphans), setting.minOrphan)
         IN  <<orphan_group(counter, SubSeq(orphans, 1, k))>>
             \o orphan_batches_every_start(Tail(orphans), counter + 1, setting)

\* orphan_batches with the slice of line 190 one short.
RECURSIVE orphan_batches_short(_, _, _)
orphan_batches_short(orphans, counter, setting) ==
    IF orphans = <<>> THEN <<>>
    ELSE LET k == Min(Len(orphans), Max(1, setting.minOrphan - 1))
         IN  <<orphan_group(counter, SubSeq(orphans, 1, k))>>
             \o orphan_batches_short(SubSeq(orphans, k + 1, Len(orphans)), counter + 1, setting)

\* orphan_batches with the slice of line 190 one long.
RECURSIVE orphan_batches_long(_, _, _)
orphan_batches_long(orphans, counter, setting) ==
    IF orphans = <<>> THEN <<>>
    ELSE LET k == Min(Len(orphans), setting.minOrphan + 1)
         IN  <<orphan_group(counter, SubSeq(orphans, 1, k))>>
             \o orphan_batches_long(SubSeq(orphans, k + 1, Len(orphans)), counter + 1, setting)

\* orphan_batches without line 195.
RECURSIVE orphan_batches_same_id(_, _, _)
orphan_batches_same_id(orphans, counter, setting) ==
    IF orphans = <<>> THEN <<>>
    ELSE LET k == Min(Len(orphans), setting.minOrphan)
         IN  <<orphan_group(counter, SubSeq(orphans, 1, k))>>
             \o orphan_batches_same_id(SubSeq(orphans, k + 1, Len(orphans)), counter, setting)

\* Lines 189-195: the orphans cut into batches of setting.minOrphan, the
\* last one taking what is left, numbered from counter on.
RECURSIVE orphan_batches(_, _, _)
orphan_batches(orphans, counter, setting) ==
    IF orphans = <<>> THEN <<>>
    ELSE LET k == Min(Len(orphans), setting.minOrphan)
         IN  <<orphan_group(counter, SubSeq(orphans, 1, k))>>
             \o orphan_batches(SubSeq(orphans, k + 1, Len(orphans)), counter + 1, setting)

community_record(cid, members, groups) ==
    [community_id |-> <<"comm", cid>>, total_cde_count |-> Len(members),
     member_cde_ids |-> members, sub_groups |-> groups]

\* ------------------------------------------------------------ state
VARIABLES
    setting,              \* the tuning parameters of lines 35-38
    catalog,              \* which catalogue the database holds
    fs_emb,               \* outputs/stage_2/embeddings.npy
    fs_graph,             \* outputs/stage_2/similarity_graph.gpickle
    fs_out,               \* outputs/stage_2/community_definitions.json
    pc,                   \* where main() stands; "idle" when no run is alive
    outcome,              \* how the last run ended
    log,                  \* what this run logged about its checkpoints
    candidate_df,         \* the IDs of the loaded frame, in row order
    embeddings,           \* the matrix in memory
    similarity_graph,     \* G
    build_i,              \* the row the edge loop of line 110 is at
    parent_communities,   \* member lists, in the order line 146 visits them
    comm_idx,             \* the community line 146 is at
    sub_groups,
    community_subgraph,
    nodes_to_process,
    output_structure,
    group_counter,
    recorded              \* history: the first finished run's frame and output

vars ==
    <<setting, catalog, fs_emb, fs_graph, fs_out, pc, outcome, log, candidate_df, embeddings,
      similarity_graph, build_i, parent_communities, comm_idx, sub_groups,
      community_subgraph, nodes_to_process, output_structure, group_counter, recorded>>

files == <<fs_emb, fs_graph>>
inputs == <<setting, catalog, recorded>>
build_state == <<embeddings, similarity_graph, build_i>>
group_state ==
    <<parent_communities, comm_idx, sub_groups, community_subgraph, nodes_to_process,
      output_structure, group_counter>>

Absent == [state |-> "absent", data |-> <<>>]
\* A file that was opened for writing and not written to the end.
Partial == [state |-> "partial", data |-> <<>>]
Complete(d) == [state |-> "complete", data |-> d]

\* os.path.exists
exists(file) == file.state # "absent"

\* np.save: the .npy file holds the shape of the matrix and its entries in
\* row order; the entries are written bit for bit.
np_save(emb) == [shape |-> <<Len(emb), Len(emb[1])>>, flat |-> Flatten(emb)]

\* np.load: the rows cut out of the entries by the shape.
np_load(d) ==
    [r \in 1..d.shape[1] |-> SubSeq(d.flat, (r - 1) * d.shape[2] + 1, r * d.shape[2])]

\* pickle.dump of a networkx Graph: the node dictionary in insertion order and
\* the adjacency dictionary, which lists every edge at both of its ends with
\* its weight.
pickle_dump(Gr) ==
    [node |-> Gr.nodes,
     adj |-> [v \in Range(Gr.nodes) |->
                 { <<u, Gr.w[{u, v}]>> : u \in { x \in Range(Gr.nodes) : x # v /\ has_edge(Gr, x, v) } }]]

\* pickle_load that restores the edges and not their weight attribute.
pickle_load_unweighted(d) ==
    [nodes |-> d.node,
     w |-> [e \in UNION { { {v, p[1]} : p \in d.adj[v] } : v \in DOMAIN d.adj } |-> 1]]

\* pickle.load: the Graph with the dumped nodes, edges and weights.
pickle_load(d) ==
    [nodes |-> d.node,
     w |-> [e \in UNION { { {v, p[1]} : p \in d.adj[v] } : v \in DOMAIN d.adj } |->
              LET v == CHOOSE x \in e : TRUE
                  p == CHOOSE q \in d.adj[v] : {v, q[1]} = e
              IN  p[2]]]

\* The frames load_and_select_candidates can return: the first n rows of the
\* catalogue, n = 0 for an empty table.
Frames(most) == { [r \in 1..n |-> r] : n \in 0..most }

NoGroups ==
    /\ parent_communities = <<>>
    /\ comm_idx = 0
    /\ sub_groups = <<>>
    /\ community_subgraph = subgraph(EmptyGraph, {})
    /\ nodes_to_process = {}
    /\ output_structure = <<>>
    /\ group_counter = 0

NoMemory ==
    /\ candidate_df = <<>>
    /\ embeddings = <<>>
    /\ similarity_graph = EmptyGraph
    /\ build_i = 0
    /\ NoGroups

Init ==
    /\ setting \in Settings
    /\ catalog \in Catalogs
    /\ fs_emb = Absent
    /\ fs_graph = Absent
    /\ fs_out = Absent
    /\ pc = "idle"
    /\ outcome = "none"
    /\ log = ""
    /\ NoMemory
    /\ recorded = [runs |-> 0, df |-> <<>>, out |-> <<>>]

\* The process is gone: nothing of its memory is left, the files stay.
Ends(how) ==
    /\ pc' = "idle"
    /\ outcome' = how
    /\ log' = ""
    /\ candidate_df' = <<>>
    /\ embeddings' = <<>>
    /\ similarity_graph' = EmptyGraph
    /\ build_i' = 0
    /\ parent_communities' = <<>>
    /\ comm_idx' = 0
    /\ sub_groups' = <<>>
    /\ community_subgraph' = subgraph(EmptyGraph, {})
    /\ nodes_to_process' = {}
    /\ output_structure' = <<>>
    /\ group_counter' = 0
    /\ UNCHANGED <<setting, catalog, files>>

\* ------------------------------------------------------------ main()
\* Line 335.
load_and_select_candidates(frames) ==
    /\ pc = "idle"
    /\ candidate_df' \in frames
    /\ pc' = "loaded"
    /\ UNCHANGED <<inputs, fs_out, log, files, outcome, build_state, group_state>>

\* A run starts; earlier runs may have left files behind.
LoadCandidates == load_and_select_candidates(Frames(MaxItems))

\* The only run of a fresh output directory starts.
LoadCandidatesOnce ==
    /\ outcome = "none"
    /\ load_and_select_candidates(Frames(MaxNodes))

\* Lines 336-338.
ExitNoCandidates ==
    /\ pc = "loaded"
    /\ candidate_df = <<>>
    /\ Ends("empty")
    /\ UNCHANGED <<recorded, fs_out>>

\* LoadGraphCheckpoint that generates the embeddings before it looks for the
\* graph checkpoint.
LoadGraphCheckpoint_after_embeddings ==
    /\ pc = "loaded"
    /\ candidate_df # <<>>
    /\ exists(fs_graph)
    /\ fs_graph.state = "complete"
    /\ embeddings' = generate_embeddings(catalog, candidate_df)
    /\ similarity_graph' = pickle_load(fs_graph.data)
    /\ log' = "Loading graph from checkpoint"
    /\ pc' = "detect"
    /\ UNCHANGED <<inputs, fs_out, files, outcome, candidate_df, build_i, group_state>>

\* Lines 340-342, pickle.load succeeds.
LoadGraphCheckpoint ==
    /\ pc = "loaded"
    /\ candidate_df # <<>>
    /\ exists(fs_graph)
    /\ fs_graph.state = "complete"
    /\ similarity_graph' = pickle_load(fs_graph.data)
    /\ log' = "Loading graph from checkpoint"
    /\ pc' = "detect"
    /\ UNCHANGED <<inputs, fs_out, files, outcome, candidate_df, embeddings, build_i, group_state>>

\* Lines 340-342, pickle.load raises on a truncated file; nothing catches it.
LoadGraphCheckpointFails ==
    /\ pc = "loaded"
    /\ candidate_df # <<>>
    /\ exists(fs_graph)
    /\ fs_graph.state = "partial"
    /\ Ends("error")
    /\ UNCHANGED <<recorded, fs_out>>

\* The test of line 345 without the comparison of the row counts.
embeddings_checkpoint_exists == exists(fs_emb)

\* The test of line 345 when np.load can read the file.
embeddings_checkpoint_valid ==
    exists(fs_emb) /\ Len(np_load(fs_emb.data)) = Len(candidate_df)

\* Lines 345-347.
LoadEmbeddingsCheckpoint ==
    /\ pc = "loaded"
    /\ candidate_df # <<>>
    /\ ~exists(fs_graph)
    /\ fs_emb.state # "partial"
    /\ embeddings_checkpoint_valid
    /\ embeddings' = np_load(fs_emb.data)
    /\ log' = "Loading embeddings from checkpoint"
    /\ pc' = "build"
    /\ build_i' = 1
    /\ similarity_graph' = add_nodes_from(EmptyGraph, candidate_df)
    /\ UNCHANGED <<inputs, fs_out, files, outcome, candidate_df, group_state>>

\* Line 345, np.load raises on a truncated file; nothing catches it.
LoadEmbeddingsCheckpointFails ==
    /\ pc = "loaded"
    /\ candidate_df # <<>>
    /\ ~exists(fs_graph)
    /\ fs_emb.state = "partial"
    /\ Ends("error")
    /\ UNCHANGED <<recorded, fs_out>>

\* Lines 348-350.
GenerateEmbeddings ==
    /\ pc = "loaded"
    /\ candidate_df # <<>>
    /\ ~exists(fs_graph)
    /\ fs_emb.state # "partial"
    /\ ~embeddings_checkpoint_valid
    /\ embeddings' = generate_embeddings(catalog, candidate_df)
    /\ log' = "Running full embedding process"
    /\ pc' = "save_emb"
    /\ UNCHANGED <<inputs, fs_out, files, outcome, candidate_df, similarity_graph, build_i, group_state>>

\* Line 351, np.save opens embeddings.npy for writing: the old content is gone.
OpenEmbeddingsFile ==
    /\ pc = "save_emb"
    /\ fs_emb' = Partial
    /\ pc' = "write_emb"
    /\ UNCHANGED <<inputs, fs_out, log, fs_graph, outcome, candidate_df, build_state, group_state>>

\* Line 351, np.save writes the matrix and closes the file; line 353 then
\* enters build_similarity_graph, which adds every ID as a node (lines 107-108).
WriteEmbeddingsFile ==
    /\ pc = "write_emb"
    /\ fs_emb' = Complete(np_save(embeddings))
    /\ pc' = "build"
    /\ build_i' = 1
    /\ similarity_graph' = add_nodes_from(EmptyGraph, candidate_df)
    /\ UNCHANGED <<inputs, fs_out, log, fs_graph, outcome, candidate_df, embeddings, group_state>>

\* One pass of the loop of lines 110-124.
BuildRow ==
    /\ pc = "build"
    /\ build_i <= Len(embeddings)
    /\ \E found \in search(candidate_df, embeddings, build_i, setting.topK) :
          similarity_graph' =
              process_neighbors(similarity_graph, catalog, candidate_df[build_i], found)
    /\ build_i' = build_i + 1
    /\ UNCHANGED <<inputs, fs_out, log, files, pc, outcome, candidate_df, embeddings, group_state>>

\* Line 355, open(graph_checkpoint_path, 'wb').
OpenGraphFile ==
    /\ pc = "build"
    /\ build_i > Len(embeddings)
    /\ fs_graph' = Partial
    /\ pc' = "write_graph"
    /\ UNCHANGED <<inputs, fs_out, log, fs_emb, outcome, candidate_df, build_state, group_state>>

\* Line 355, pickle.dump and close.
WriteGraphFile ==
    /\ pc = "write_graph"
    /\ fs_graph' = Complete(pickle_dump(similarity_graph))
    /\ pc' = "detect"
    /\ UNCHANGED <<inputs, fs_out, log, fs_emb, outcome, candidate_df, build_state, group_state>>

\* The process is killed (power loss, SIGKILL, an operator's Ctrl-C) while a
\* run is alive.
Crash ==
    /\ pc # "idle"
    /\ Ends("crashed")
    /\ UNCHANGED <<recorded, fs_out>>

\* ------------------------------------------------------------ detect_and_format_communities_hub_spoke
\* Lines 135-144.
DetectCommunities ==
    /\ pc = "detect"
    /\ parent_communities' \in best_partition(similarity_graph)
    /\ output_structure' = <<>>
    /\ group_counter' = 0
    /\ comm_idx' = 1
    /\ pc' = "communities"
    /\ UNCHANGED <<inputs, fs_out, log, files, outcome, candidate_df, build_state, sub_groups,
                   community_subgraph, nodes_to_process>>

\* Lines 146-151: the next community's working copy.
EnterCommunity ==
    /\ pc = "communities"
    /\ comm_idx <= Len(parent_communities)
    /\ LET members == parent_communities[comm_idx]
       IN  /\ members # <<>>
           /\ sub_groups' = <<>>
           /\ community_subgraph' = subgraph(similarity_graph, Range(members))
           /\ nodes_to_process' = Range(members)
    /\ pc' = "hub_loop"
    /\ UNCHANGED <<inputs, fs_out, log, files, outcome, candidate_df, build_state, parent_communities,
                   comm_idx, output_structure, group_counter>>

\* Lines 154-185, a pass that finds a hub.
AcceptHub ==
    /\ pc = "hub_loop"
    /\ loop_continues(nodes_to_process, setting)
    /\ \E hub_node \in first_valid_hubs(community_subgraph, setting) :
       \E hub_spoke_group \in potential_groups(community_subgraph, hub_node, setting) :
          /\ sub_groups' = Append(sub_groups, hub_group(group_counter, hub_node, hub_spoke_group))
          /\ nodes_to_process' = remaining_after(nodes_to_process, hub_spoke_group)
          /\ community_subgraph' = remove_nodes_from(community_subgraph, Range(hub_spoke_group))
    /\ group_counter' = group_counter + 1
    /\ UNCHANGED <<inputs, fs_out, log, files, pc, outcome, candidate_df, build_state, parent_communities,
                   comm_idx, output_structure>>

\* Line 154 false, or the breaks of lines 156 and 174-175.
LeaveHubLoop ==
    /\ pc = "hub_loop"
    /\ \/ ~loop_continues(nodes_to_process, setting)
       \/ community_subgraph.nodes = {}
       \/ first_valid_hubs(community_subgraph, setting) = {}
    /\ pc' = "orphans"
    /\ UNCHANGED <<inputs, fs_out, log, files, outcome, candidate_df, build_state, group_state>>

\* Lines 187-201.  list(nodes_to_process) lists a set of strings, whose
\* order follows the per-process string hash: any order.
EmitOrphans ==
    /\ pc = "orphans"
    /\ \E orphans \in Perms(nodes_to_process) :
          LET batches == orphan_batches(orphans, group_counter, setting)
              groups == sub_groups \o batches
          IN  /\ sub_groups' = groups
              /\ group_counter' = group_counter + Len(batches)
              /\ output_structure' =
                    IF groups # <<>>
                    THEN Append(output_structure,
                                community_record(comm_idx - 1, parent_communities[comm_idx], groups))
                    ELSE output_structure
    /\ comm_idx' = comm_idx + 1
    /\ pc' = "communities"
    /\ UNCHANGED <<inputs, fs_out, log, files, outcome, candidate_df, build_state, parent_communities,
                   community_subgraph, nodes_to_process>>

\* Lines 203-204.
ReturnCommunities ==
    /\ pc = "communities"
    /\ comm_idx > Len(parent_communities)
    /\ pc' = "formatted"
    /\ UNCHANGED <<inputs, fs_out, log, files, outcome, candidate_df, build_state, group_state>>

\* save_output (lines 209-215) under the test of line 359: json.dump of the
\* definitions when there are any; otherwise the file is left as it is.
save_output(data, file) == IF data # <<>> THEN Complete(data) ELSE file

\* Lines 359-367: the definitions are written out and the run ends.
FinishRun ==
    /\ pc = "formatted"
    /\ fs_out' = save_output(output_structure, fs_out)
    /\ Ends("ok")
    /\ UNCHANGED recorded

Next ==
    \/ LoadCandidates
    \/ ExitNoCandidates
    \/ LoadGraphCheckpoint
    \/ LoadGraphCheckpointFails
    \/ LoadEmbeddingsCheckpoint
    \/ LoadEmbeddingsCheckpointFails
    \/ GenerateEmbeddings
    \/ OpenEmbeddingsFile
    \/ WriteEmbeddingsFile
    \/ BuildRow
    \/ OpenGraphFile
    \/ WriteGraphFile
    \/ DetectCommunities
    \/ EnterCommunity
    \/ AcceptHub
    \/ LeaveHubLoop
    \/ EmitOrphans
    \/ ReturnCommunities
    \/ FinishRun
    \/ Crash

Spec == Init /\ [][Next]_vars

\* One run over a fresh output directory that nothing interrupts.
NextOneRun ==
    \/ LoadCandidatesOnce
    \/ ExitNoCandidates
    \/ GenerateEmbeddings
    \/ OpenEmbeddingsFile
    \/ WriteEmbeddingsFile
    \/ BuildRow
    \/ OpenGraphFile
    \/ WriteGraphFile
    \/ DetectCommunities
    \/ EnterCommunity
    \/ AcceptHub
    \/ LeaveHubLoop
    \/ EmitOrphans
    \/ ReturnCommunities
    \/ FinishRun

SpecOneRun == Init /\ [][NextOneRun]_vars

\* The first run of a fresh output directory starts.
LoadCandidatesFirst ==
    /\ recorded.runs = 0
    /\ outcome = "none"
    /\ load_and_select_candidates(Frames(MaxItems))

\* A second run starts over the frame of the first.
LoadCandidatesAgain ==
    /\ recorded.runs = 1
    /\ load_and_select_candidates({recorded.df})

\* FinishRun, the first run's frame and output kept for comparison.
FinishRunRecorded ==
    /\ pc = "formatted"
    /\ fs_out' = save_output(output_structure, fs_out)
    /\ Ends("ok")
    /\ recorded' = IF recorded.runs = 0
                   THEN [runs |-> 1, df |-> candidate_df, out |-> output_structure]
                   ELSE [recorded EXCEPT !.runs = 2]

\* Two uninterrupted runs, one after the other, over the same candidates.
NextTwoRuns ==
    \/ LoadCandidatesFirst
    \/ LoadCandidatesAgain
    \/ ExitNoCandidates
    \/ LoadGraphCheckpoint
    \/ GenerateEmbeddings
    \/ OpenEmbeddingsFile
    \/ WriteEmbeddingsFile
    \/ BuildRow
    \/ OpenGraphFile
    \/ WriteGraphFile
    \/ DetectCommunities
    \/ EnterCommunity
    \/ AcceptHub
    \/ LeaveHubLoop
    \/ EmitOrphans
    \/ ReturnCommunities
    \/ FinishRunRecorded

SpecTwoRuns == Init /\ [][NextTwoRuns]_vars

\* The frames of a table in which the last of n rows was deleted and the
\* next item of the catalogue inserted: as many rows, another item.
ReplacedFrames(most) == { [r \in 1..n |-> IF r = n THEN n + 1 ELSE r] : n \in 1..most }

\* A run starts; the table may have changed since the run before.
LoadChangedCandidates ==
    load_and_select_candidates(Frames(MaxItems) \cup ReplacedFrames(MaxItems))

\* Runs that may be interrupted, over a table that changes between them.
NextTableChanges ==
    \/ LoadChangedCandidates
    \/ ExitNoCandidates
    \/ LoadGraphCheckpoint
    \/ LoadGraphCheckpointFails
    \/ LoadEmbeddingsCheckpoint
    \/ LoadEmbeddingsCheckpointFails
    \/ GenerateEmbeddings
    \/ OpenEmbeddingsFile
    \/ WriteEmbeddingsFile
    \/ BuildRow
    \/ OpenGraphFile
    \/ WriteGraphFile
    \/ DetectCommunities
    \/ EnterCommunity
    \/ AcceptHub
    \/ LeaveHubLoop
    \/ EmitOrphans
    \/ ReturnCommunities
    \/ FinishRun
    \/ Crash

SpecTableChanges == Init /\ [][NextTableChanges]_vars

\* ------------------------------------------------------------ properties
\* The SubGroups emitted so far: those of the finished communities, in
\* emission order.
Emitted == Flatten([c \in DOMAIN output_structure |-> output_structure[c].sub_groups])

MemberIds(groups) == Flatten([g \in DOMAIN groups |-> groups[g].member_cde_ids])

NoDuplicates(s) == \A i, j \in DOMAIN s : i # j => s[i] # s[j]

OfType(groups, type) ==
    { g \in DOMAIN groups : groups[g].group_type = type }

\* C1: at the end of every run, fresh or resumed from the graph checkpoint of
\* an earlier run, the member lists of all SubGroups of all Communities list
\* every candidate ID of this run exactly once and nothing else.
C1_PartitionCompleteness ==
    pc = "formatted" =>
        /\ NoDuplicates(MemberIds(Emitted))
        /\ Range(MemberIds(Emitted)) = Range(candidate_df)

\* C2: in every emitted Community the SubGroups partition the member list:
\* each member is in exactly one SubGroup, no SubGroup holds a non-member,
\* none is empty, and each is a hub_and_spoke or an orphan group.
C2_SubGroupsPartitionCommunity ==
    \A c \in DOMAIN output_structure :
        LET comm == output_structure[c]
        IN  /\ NoDuplicates(MemberIds(comm.sub_groups))
            /\ Range(MemberIds(comm.sub_groups)) = Range(comm.member_cde_ids)
            /\ \A g \in DOMAIN comm.sub_groups :
                  /\ comm.sub_groups[g].member_cde_ids # <<>>
                  /\ comm.sub_groups[g].group_type \in {"hub_and_spoke", "orphan"}

\* A finished run with a Community that was split into a hub_and_spoke group
\* and an orphan group.
C2_Witness ==
    /\ pc = "formatted"
    /\ \E c \in DOMAIN output_structure :
          /\ OfType(output_structure[c].sub_groups, "hub_and_spoke") # {}
          /\ OfType(output_structure[c].sub_groups, "orphan") # {}

SizeOf(group) == Len(group.member_cde_ids)

\* The SubGroups made so far, those of the community in work included.
Made == IF pc \in {"hub_loop", "orphans"} THEN Emitted \o sub_groups ELSE Emitted

\* C3: every hub_and_spoke SubGroup has between MIN_HUB_SPOKE_GROUP_SIZE and
\* MAX_SUB_GROUP_SIZE members.
C3_HubSpokeSizeBounds ==
    \A g \in OfType(Made, "hub_and_spoke") :
        setting.minHub <= SizeOf(Made[g]) /\ SizeOf(Made[g]) <= setting.max

\* A hub that had more neighbours than a group can take: its group is full.
C3_Witness ==
    /\ pc = "formatted"
    /\ \E g \in OfType(Emitted, "hub_and_spoke") :
          /\ SizeOf(Emitted[g]) = setting.max
          /\ Cardinality(adj(subgraph(similarity_graph, Range(similarity_graph.nodes)),
                             Emitted[g].hub_cde_id)) > setting.max - 1

\* The orphan SubGroups of one community, in emission order.
Orphans(groups) == Filter(groups, { groups[g] : g \in OfType(groups, "orphan") })

\* C4: in each Community every orphan SubGroup but the last emitted has at
\* least MIN_ORPHAN_GROUP_SIZE members, and the last one is not empty.
C4_OrphanSizeBounds ==
    \A c \in DOMAIN output_structure :
        LET orphan == Orphans(output_structure[c].sub_groups)
        IN  \A k \in DOMAIN orphan :
               /\ SizeOf(orphan[k]) >= 1
               /\ k < Len(orphan) => SizeOf(orphan[k]) >= setting.minOrphan

\* A community whose orphans fill one batch and leave a smaller last one.
C4_Witness ==
    /\ pc = "formatted"
    /\ \E c \in DOMAIN output_structure :
          LET orphan == Orphans(output_structure[c].sub_groups)
          IN  /\ Len(orphan) >= 2
              /\ SizeOf(orphan[Len(orphan)]) < setting.minOrphan

\* C5 as claimed: every SubGroup of either kind has at most
\* MAX_SUB_GROUP_SIZE members, whatever the three parameters are.
C5_EveryGroupWithinMax ==
    \A g \in DOMAIN Made : SizeOf(Made[g]) <= setting.max

\* C5 amended: a hub_and_spoke SubGroup has at most MAX_SUB_GROUP_SIZE
\* members and an orphan SubGroup at most MIN_ORPHAN_GROUP_SIZE, so every
\* SubGroup has at most MAX_SUB_GROUP_SIZE members when
\* MIN_ORPHAN_GROUP_SIZE <= MAX_SUB_GROUP_SIZE.
C5_GroupWithinMaxOrOrphanBatch ==
    /\ \A g \in OfType(Made, "hub_and_spoke") : SizeOf(Made[g]) <= setting.max
    /\ \A g \in OfType(Made, "orphan") : SizeOf(Made[g]) <= setting.minOrphan
    /\ setting.minOrphan <= setting.max => \A g \in DOMAIN Made : SizeOf(Made[g]) <= setting.max

\* A full orphan batch and a hub_and_spoke group under a setting whose orphan
\* batch size is within the maximum.
C5_Witness ==
    /\ pc = "formatted"
    /\ setting.minOrphan <= setting.max
    /\ \E g \in OfType(Emitted, "orphan") : SizeOf(Emitted[g]) = setting.minOrphan
    /\ OfType(Emitted, "hub_and_spoke") # {}

\* C7: the k-th SubGroup emitted, counting from 0 over all communities, has
\* group_id grp_k: the ids are unique, increasing and without gaps.
C7_GroupIdsCountEmission ==
    /\ \A k \in DOMAIN Made : Made[k].group_id = <<"grp", k - 1>>
    /\ group_counter = Len(Made)

\* A finished run with two communities and at least three SubGroups, of both
\* kinds.
C7_Witness ==
    /\ pc = "formatted"
    /\ Len(output_structure) >= 2
    /\ Len(Emitted) >= 3
    /\ OfType(Emitted, "hub_and_spoke") # {}
    /\ OfType(Emitted, "orphan") # {}

\* C6: a second run over the same candidates and embeddings ends with the
\* output of the first: the same communities, SubGroups, member order and
\* group ids.
C6_Determinism ==
    (pc = "formatted" /\ recorded.runs = 1) => output_structure = recorded.out

\* C8: a run that finds a checkpoint file it cannot deserialize goes on as if
\* the file were absent; no run ends in the deserialization error.
C8_CorruptCheckpointTreatedAsAbsent == outcome # "error"

\* C9: a checkpoint path never holds a partially written file once the
\* write is over or was cut short: outside the two writes, each checkpoint
\* is absent or complete.
C9_CheckpointWritesAtomic ==
    pc \notin {"write_emb", "write_graph"} =>
        fs_emb.state # "partial" /\ fs_graph.state # "partial"

RowCountMatches ==
    fs_emb.state = "complete" /\ Len(np_load(fs_emb.data)) = Len(candidate_df)

\* C10: with no graph checkpoint, a readable embeddings checkpoint is loaded
\* iff its row count equals the number of candidates, and otherwise (absent or
\* another count) the embeddings are generated; graph construction starts
\* only with the run's matrix in the embeddings checkpoint.  So a run that
\* starts after the checkpoint was written for the same candidates does not
\* generate embeddings.
C10_EmbeddingsCheckpointReuse ==
    /\ (/\ pc = "loaded" /\ candidate_df # <<>>
        /\ ~exists(fs_graph) /\ fs_emb.state # "partial")
       => /\ (ENABLED LoadEmbeddingsCheckpoint) <=> RowCountMatches
          /\ (ENABLED GenerateEmbeddings) <=> ~RowCountMatches
    /\ log = "Loading embeddings from checkpoint" => Len(embeddings) = Len(candidate_df)
    /\ pc \in {"save_emb", "write_emb"} => log = "Running full embedding process"
    /\ pc = "build" =>
          /\ fs_emb = Complete(np_save(embeddings))
          /\ Len(embeddings) = Len(candidate_df)
          /\ log # "Loading graph from checkpoint"

\* A run that follows an interrupted one loads the embeddings the
\* interrupted run had saved and is about to build the graph.
C10_Witness ==
    /\ pc = "build"
    /\ outcome = "crashed"
    /\ log = "Loading embeddings from checkpoint"
    /\ build_i = 1

\* What a run over these candidates that reads no checkpoint works with.
FromScratchEmbeddings == generate_embeddings(catalog, candidate_df)

FromScratchGraphs ==
    build_similarity_graph(catalog, candidate_df, FromScratchEmbeddings, setting.topK)

\* The run read the graph checkpoint, and that checkpoint was written for the
\* candidates of this run.
ReloadedGraphOfSameCandidates ==
    /\ log = "Loading graph from checkpoint"
    /\ fs_graph.state = "complete"
    /\ fs_graph.data.node = candidate_df

\* C11: a run that reloads the embeddings checkpoint works with the matrix a
\* run without checkpoints generates, and a run that reloads the graph
\* checkpoint written for the same candidates works with a graph (nodes in
\* order, edges, weights) that a run without checkpoints builds; the
\* communities and SubGroups are computed from that graph alone.
C11_CheckpointRoundTrip ==
    /\ log = "Loading embeddings from checkpoint" => embeddings = FromScratchEmbeddings
    /\ ReloadedGraphOfSameCandidates => similarity_graph \in FromScratchGraphs
    /\ (pc = "build" /\ build_i > Len(embeddings)) => similarity_graph \in FromScratchGraphs

\* A run over the largest frame is through with a graph of weighted edges it
\* reloaded from the checkpoint an earlier run over the same frame wrote.
C11_Witness ==
    /\ pc = "formatted"
    /\ ReloadedGraphOfSameCandidates
    /\ Len(candidate_df) = MaxItems
    /\ DOMAIN similarity_graph.w # {}
    /\ fs_emb.state = "complete"

\* C12: a run over zero candidates ends without an error and leaves the empty
\* array as the community definitions: after such a run the output file
\* exists and lists no community.
C12_EmptyInputEmitsEmptyArray ==
    (pc = "idle" /\ outcome = "empty") => fs_out = Complete(<<>>)

\* The graph build_similarity_graph is working on or has returned.
Built == (pc = "build" /\ build_i > Len(embeddings)) \/ pc = "write_graph"

Isolated(Gr) == { v \in Range(Gr.nodes) : \A e \in DOMAIN Gr.w : v \notin e }

\* C13: the nodes of the graph build_similarity_graph returns are the IDs of
\* the candidates, each once: an item without an edge is a node, and no
\* node or edge end is anything but a candidate.
C13_NodeSetIsItemSet ==
    Built =>
        /\ Range(similarity_graph.nodes) = Range(candidate_df)
        /\ NoDuplicates(similarity_graph.nodes)
        /\ \A e \in DOMAIN similarity_graph.w : e \subseteq Range(candidate_df)

\* A built graph of several items in which some item has no edge and some
\* other item has one.
C13_Witness ==
    /\ Built
    /\ Len(candidate_df) >= 3
    /\ Isolated(similarity_graph) # {}
    /\ DOMAIN similarity_graph.w # {}

\* Every possible result of the top-K query of row i lists row j's item.
AlwaysFound(i, j) ==
    \A found \in search(candidate_df, embeddings, i, setting.topK) :
        \E n \in DOMAIN found : found[n][1] = candidate_df[j]

\* C14: an edge joins two distinct items, and while the graph is being
\* built an edge that is in the graph stays in it with the weight it was
\* inserted with: finding the pair again, from either end, changes nothing.
C14_FirstWriterWins ==
    [][pc = "build" =>
          \A e \in DOMAIN similarity_graph.w :
              /\ Cardinality(e) = 2
              /\ e \in DOMAIN similarity_graph'.w
              /\ similarity_graph'.w[e] = similarity_graph.w[e]]_vars

\* A built graph with an edge of positive weight whose two ends each found
\* the other in their top-K query.
C14_Witness ==
    /\ Built
    /\ \E i, j \in DOMAIN candidate_df :
          /\ i < j
          /\ AlwaysFound(i, j) /\ AlwaysFound(j, i)
          /\ has_edge(similarity_graph, candidate_df[i], candidate_df[j])
          /\ similarity_graph.w[{candidate_df[i], candidate_df[j]}] > 0

\* The weight lines 120-123 compute for the pair when row u finds item v.
WeightFoundFrom(u, v) ==
    combined_weight(ItemOf(catalog, u), ItemOf(catalog, v),
                    Dot(VecOf(catalog, u), VecOf(catalog, v)))

\* C15: the weight stored for an edge is the weight computed when either of
\* its ends finds the other: it depends on the unordered pair only, not on
\* which end's query inserted the edge.
C15_WeightSymmetric ==
    pc \in {"build", "write_graph"} =>
        \A e \in DOMAIN similarity_graph.w : \A u, v \in e :
            u # v => similarity_graph.w[e] = WeightFoundFrom(u, v)

\* A built graph with an edge of positive weight between two items that
\* find each other and whose names share some tokens and not all.
C15_Witness ==
    /\ Built
    /\ \E i, j \in DOMAIN candidate_df :
          LET u == candidate_df[i]
              v == candidate_df[j]
              lexical == jaccard_similarity(ItemOf(catalog, u).variable_name,
                                            ItemOf(catalog, v).variable_name)
          IN  /\ i < j
              /\ AlwaysFound(i, j) /\ AlwaysFound(j, i)
              /\ has_edge(similarity_graph, u, v)
              /\ similarity_graph.w[{u, v}] > 0
              /\ 0 < lexical /\ lexical < 60
              /\ Cardinality(Range(Split(LowerStr(ItemOf(catalog, u).variable_name), <<>>)))
                    # Cardinality(Range(Split(LowerStr(ItemOf(catalog, v).variable_name), <<>>)))

\* The pairs a query result of item u relates: u with every item of the
\* result that is neither the sentinel nor u.
Relation(u, found) ==
    { {u, found[n][1]} : n \in { m \in DOMAIN found : found[m][1] \notin {-1, u} } }

\* No possible result of the top-K query of row i lists row j's item.
NeverFound(i, j) ==
    \A found \in search(candidate_df, embeddings, i, setting.topK) :
        \A n \in DOMAIN found : found[n][1] # candidate_df[j]

\* C16: the edge set is the union of the items' top-K relations.  The graph
\* has no edge when the first query is made, and the pass for a row adds
\* exactly the pairs of that row's query result (sentinel and the item
\* itself left out) to the edges there are, whichever end they were found
\* from before.
C16_EdgesAreUnionOfTopK ==
    [][(pc = "build" /\ build_i <= Len(embeddings)) =>
          /\ build_i = 1 => DOMAIN similarity_graph.w = {}
          /\ \E found \in search(candidate_df, embeddings, build_i, setting.topK) :
                DOMAIN similarity_graph'.w =
                    DOMAIN similarity_graph.w \cup Relation(candidate_df[build_i], found)]_vars

\* A built graph with an edge that only one of its ends can have found: the
\* other end never has it among its top K.
C16_Witness ==
    /\ Built
    /\ \E i, j \in DOMAIN candidate_df :
          /\ i # j
          /\ NeverFound(j, i)
          /\ has_edge(similarity_graph, candidate_df[i], candidate_df[j])

\* The token set of a name: lowercase, split at underscores; none for ''.
Tokens(name) == IF name = <<>> THEN {} ELSE Range(Split(LowerStr(name), <<>>))

\* The lexical score as claimed, times 60: 0 when a token set is empty,
\* intersection over union otherwise.
ClaimedLexical(name1, name2) ==
    IF Tokens(name1) = {} \/ Tokens(name2) = {} THEN 0
    ELSE (60 * Cardinality(Tokens(name1) \cap Tokens(name2)))
             \div Cardinality(Tokens(name1) \cup Tokens(name2))

\* C17: the lexical score in every edge weight is the Jaccard score of the
\* two names' token sets, and 0 when either name is the empty string: the
\* stored weight is semantic * (1 + 0.2 * that score + 0.15 * structural).
C17_LexicalScoreZeroOnEmptyName ==
    pc \in {"build", "write_graph"} =>
        \A e \in DOMAIN similarity_graph.w : \A u, v \in e :
            u # v =>
                similarity_graph.w[e] =
                    Max(0, Dot(VecOf(catalog, u), VecOf(catalog, v)))
                    * (6000
                       + LEXICAL_BOOST_FACTOR
                         * ClaimedLexical(ItemOf(catalog, u).variable_name,
                                          ItemOf(catalog, v).variable_name)
                       + STRUCTURAL_BOOST_FACTOR * 60
                         * structural_score(ItemOf(catalog, u), ItemOf(catalog, v)))

\* The structural score as claimed: 1 for two equal tags that are both
\* there, 0 when either is missing.
ClaimedStructural(format1, format2) ==
    IF format1 = None \/ format2 = None THEN 0
    ELSE IF format1 = format2 THEN 1 ELSE 0

\* C18: the structural score in every edge weight is 1 iff both items have
\* a value_format and the two are equal, and 0 when either is missing, both
\* missing included: the stored weight is
\* semantic * (1 + 0.2 * lexical + 0.15 * that score).
C18_StructuralScoreZeroOnMissingTag ==
    pc \in {"build", "write_graph"} =>
        \A e \in DOMAIN similarity_graph.w : \A u, v \in e :
            u # v =>
                similarity_graph.w[e] =
                    Max(0, Dot(VecOf(catalog, u), VecOf(catalog, v)))
                    * (6000
                       + LEXICAL_BOOST_FACTOR
                         * jaccard_similarity(ItemOf(catalog, u).variable_name,
                                              ItemOf(catalog, v).variable_name)
                       + STRUCTURAL_BOOST_FACTOR * 60
                         * ClaimedStructural(ItemOf(catalog, u).value_format,
                                             ItemOf(catalog, v).value_format))

\* The emitted communities of one member.
Singletons == { c \in DOMAIN output_structure : Len(output_structure[c].member_cde_ids) = 1 }

\* At the end of a run every item without an edge is a community of its own.
IsolatedAreSingletons ==
    pc = "formatted" =>
        \A v \in Isolated(similarity_graph) :
            \E c \in Singletons : output_structure[c].member_cde_ids = <<v>>

\* C19 as claimed: whatever the setting, a community of one node is emitted
\* with exactly one SubGroup, an orphan group holding that node, and every
\* node without an edge ends up as such a community.
C19_SingletonIsOneOrphanGroup ==
    /\ \A c \in Singletons :
          LET comm == output_structure[c]
          IN  /\ Len(comm.sub_groups) = 1
              /\ comm.sub_groups[1].group_type = "orphan"
              /\ comm.sub_groups[1].member_cde_ids = comm.member_cde_ids
    /\ IsolatedAreSingletons

\* C19 amended: a community of one node is emitted with exactly one SubGroup
\* holding that node; it is an orphan group for every setting with
\* MIN_ORPHAN_GROUP_SIZE > 1 or MIN_HUB_SPOKE_GROUP_SIZE > 1, and a
\* hub_and_spoke group whose hub is the node when both are 1.  Every node
\* without an edge ends up as such a community.
C19_SingletonIsOneGroupOrphanAboveOne ==
    /\ \A c \in Singletons :
          LET comm == output_structure[c]
              group == comm.sub_groups[1]
          IN  /\ Len(comm.sub_groups) = 1
              /\ group.member_cde_ids = comm.member_cde_ids
              /\ IF setting.minOrphan > 1 \/ setting.minHub > 1
                 THEN group.group_type = "orphan"
                 ELSE group.group_type = "hub_and_spoke"
                      /\ group.hub_cde_id = comm.member_cde_ids[1]
    /\ IsolatedAreSingletons

\* A finished run over at least three items none of which has an edge, under
\* a setting whose minima are above 1: one community per item.
C19_Witness ==
    /\ pc = "formatted"
    /\ Len(candidate_df) >= 3
    /\ setting.minOrphan > 1
    /\ Isolated(similarity_graph) = Range(candidate_df)
    /\ Singletons = 1..Len(candidate_df)

\* No member of the community can be the hub of a group that is large
\* enough, in the community's subgraph as line 150 makes it.
NoValidHub(members) ==
    first_valid_hubs(subgraph(similarity_graph, Range(members)), setting) = {}

\* C20: a community of fewer than MIN_ORPHAN_GROUP_SIZE members in which no
\* member is a valid hub is emitted with exactly one SubGroup, an orphan
\* group whose members are the members of the community.
C20_SmallCommunityIsOneOrphanGroup ==
    \A c \in DOMAIN output_structure :
        LET comm == output_structure[c]
        IN  (Len(comm.member_cde_ids) < setting.minOrphan /\ NoValidHub(comm.member_cde_ids))
            => /\ Len(comm.sub_groups) = 1
               /\ comm.sub_groups[1].group_type = "orphan"
               /\ Range(comm.sub_groups[1].member_cde_ids) = Range(comm.member_cde_ids)
               /\ SizeOf(comm.sub_groups[1]) = Len(comm.member_cde_ids)

\* A finished run with a community of several members joined by edges that is
\* smaller than an orphan batch and has no valid hub.
C20_Witness ==
    /\ pc = "formatted"
    /\ \E c \in DOMAIN output_structure :
          LET members == output_structure[c].member_cde_ids
          IN  /\ Len(members) >= 3
              /\ Len(members) < setting.minOrphan
              /\ NoValidHub(members)
              /\ DOMAIN subgraph(similarity_graph, Range(members)).w # {}

\* Row r of the matrix in memory is the embedding of the candidate of row r.
HasItsEmbedding(r) == embeddings[r] = VecOf(catalog, candidate_df[r])

\* C21: graph construction works on a matrix that holds, for every
\* candidate, that candidate's embedding; a run that finds a candidate
\* without its embedding stops with an error instead, so no graph is built
\* or checkpointed from a matrix in which a candidate's embedding is missing.
C21_NoGraphFromMissingEmbedding ==
    pc \in {"build", "write_graph"} =>
        /\ Len(embeddings) = Len(candidate_df)
        /\ \A r \in DOMAIN candidate_df : HasItsEmbedding(r)

\* How often x occurs in the sequence s.
Occurrences(s, x) == Cardinality({ i \in DOMAIN s : s[i] = x })

\* C22: a SubGroup has the field hub_cde_id iff it is a hub_and_spoke group,
\* its type is hub_and_spoke or orphan, and the hub of a hub_and_spoke group
\* is listed exactly once among the group's own members.
C22_HubFieldIffHubAndSpoke ==
    \A g \in DOMAIN Made :
        /\ Made[g].group_type \in {"hub_and_spoke", "orphan"}
        /\ "hub_cde_id" \in DOMAIN Made[g] <=> Made[g].group_type = "hub_and_spoke"
        /\ Made[g].group_type = "hub_and_spoke" =>
              Occurrences(Made[g].member_cde_ids, Made[g].hub_cde_id) = 1

\* A finished run that emitted a hub_and_spoke group of a hub and two spokes
\* and an orphan group.
C22_Witness ==
    /\ pc = "formatted"
    /\ \E g \in OfType(Emitted, "hub_and_spoke") : SizeOf(Emitted[g]) >= 3
    /\ OfType(Emitted, "orphan") # {}

\* C23: while it is built and when it is written, the graph has no edge from
\* an item to itself and no edge with the sentinel -1 or any other value that
\* is not a candidate ID at an end: each edge has two distinct ends, both
\* candidates.
C23_NoSelfLoopNoSentinel ==
    pc \in {"build", "write_graph"} =>
        \A e \in DOMAIN similarity_graph.w :
            /\ \E u, v \in Range(candidate_df) : u # v /\ e = {u, v}
            /\ -1 \notin e

\* A built graph with edges, after queries that each returned the item
\* itself and, the index holding fewer than K rows, the sentinel.
C23_Witness ==
    /\ Built
    /\ Len(candidate_df) >= 2
    /\ setting.topK > Len(candidate_df)
    /\ \A i \in DOMAIN candidate_df : AlwaysFound(i, i)
    /\ \A found \in search(candidate_df, embeddings, 1, setting.topK) :
          \E n \in DOMAIN found : found[n][1] = -1
    /\ DOMAIN similarity_graph.w # {}

\* The sum of the weights of the edges of sub at v.
WeightedDegree(sub, v) ==
    LET nb == adj(sub, v)
        RECURSIVE Sum(_)
        Sum(S) == IF S = {} THEN 0
                  ELSE LET u == CHOOSE x \in S : TRUE IN sub.w[{u, v}] + Sum(S \ {u})
    IN  Sum(nb)

\* v with its heaviest neighbours makes a group that is large enough.
CanBeHub(sub, v) ==
    \E g \in potential_groups(sub, v, setting) : is_valid_group(g, setting)

\* The step accepts a hub_and_spoke group.
AcceptsGroup == pc = "hub_loop" /\ Len(sub_groups') = Len(sub_groups) + 1

C25_SpokesAreHeaviestNeighbours ==
    [][AcceptsGroup =>
          LET group == sub_groups'[Len(sub_groups')]
              hub == group.hub_cde_id
              spokes == Tail(group.member_cde_ids)
              nbrs == adj(community_subgraph, hub)
          IN  /\ Head(group.member_cde_ids) = hub
              /\ NoDuplicates(spokes)
              /\ Range(spokes) \subseteq nbrs
              /\ Range(spokes) \subseteq nodes_to_process
              /\ \A u \in Range(spokes) : has_edge(similarity_graph, hub, u)
              /\ Len(spokes) = Min(Cardinality(nbrs), setting.max - 1)
              /\ \A u \in nbrs \ Range(spokes) : \A v \in Range(spokes) :
                    community_subgraph.w[{hub, u}] <= community_subgraph.w[{hub, v}]]_vars

\* The first group of a community was accepted, and a neighbour of its hub
\* was left out that is lighter than each of the spokes.
C25_Witness ==
    /\ pc = "hub_loop"
    /\ Len(sub_groups) = 1
    /\ LET hub == sub_groups[1].hub_cde_id
           spokes == Tail(sub_groups[1].member_cde_ids)
       IN  /\ spokes # <<>>
           /\ \E u \in nodes_to_process :
                 /\ has_edge(similarity_graph, hub, u)
                 /\ \A v \in Range(spokes) :
                       similarity_graph.w[{hub, u}] < similarity_graph.w[{hub, v}]

\* The neighbours v has among the nodes of S in the graph.
NeighboursIn(S, v) == { u \in S : u # v /\ has_edge(similarity_graph, u, v) }

\* v with its neighbours among S, at most MAX_SUB_GROUP_SIZE - 1 of them,
\* reaches MIN_HUB_SPOKE_GROUP_SIZE.
ValidHubAmong(S, v) ==
    1 + Min(Cardinality(NeighboursIn(S, v)), setting.max - 1) >= setting.minHub

\* The remaining nodes are too few for another pass, or none of them is a
\* valid hub among them.
Exhausted ==
    \/ Cardinality(nodes_to_process) < setting.minOrphan
    \/ \A v \in nodes_to_process : ~ValidHubAmong(nodes_to_process, v)

\* C26: the loop of a community is left only when fewer than
\* MIN_ORPHAN_GROUP_SIZE nodes remain or no remaining node is a valid hub
\* among the remaining ones, so the orphans that are then emitted are
\* exhausted in this sense; and a hub_and_spoke group is accepted only while
\* at least MIN_ORPHAN_GROUP_SIZE nodes remain.
C26_GreedyExhaustion ==
    [][/\ (pc = "hub_loop" /\ pc' = "orphans") => Exhausted
       /\ pc = "orphans" => Exhausted
       /\ AcceptsGroup => Cardinality(nodes_to_process) >= setting.minOrphan]_vars

\* The loop was left after a group was accepted, with enough nodes remaining
\* for a pass and none of them a valid hub.
C26_Witness ==
    /\ pc = "orphans"
    /\ sub_groups # <<>>
    /\ Cardinality(nodes_to_process) >= setting.minOrphan
    /\ \A v \in nodes_to_process : ~ValidHubAmong(nodes_to_process, v)

\* C27: the partitioner terminates.  A pass of the loop is never stuck: it
\* accepts a group or leaves the loop.  A pass that accepts a group takes at
\* least one node out of the remaining nodes and of the working copy, so a
\* community of n members sees at most n accepting passes.  The orphans are
\* then cut, in one go, into as many batches as their number divided by
\* MIN_ORPHAN_GROUP_SIZE, rounded up.
C27_PartitionerTerminates ==
    [][/\ pc = "hub_loop" =>
             /\ (ENABLED AcceptHub) \/ (ENABLED LeaveHubLoop)
             /\ Len(sub_groups) + Cardinality(nodes_to_process)
                    <= Len(parent_communities[comm_idx])
       /\ AcceptsGroup =>
             (/\ Cardinality(nodes_to_process') < Cardinality(nodes_to_process)
              /\ Cardinality(community_subgraph'.nodes) < Cardinality(community_subgraph.nodes)
              /\ pc' = "hub_loop")
       /\ pc = "orphans" =>
             (/\ pc' = "communities"
              /\ Len(sub_groups') - Len(sub_groups)
                    = (Cardinality(nodes_to_process) + setting.minOrphan - 1)
                          \div setting.minOrphan)]_vars

\* A finished run with a community that took two accepting passes of the
\* loop and then an orphan batch.
C27_Witness ==
    /\ pc = "formatted"
    /\ \E c \in DOMAIN output_structure :
          /\ Cardinality(OfType(output_structure[c].sub_groups, "hub_and_spoke")) >= 2
          /\ OfType(output_structure[c].sub_groups, "orphan") # {}

\* The run read the graph checkpoint.
UsesGraphCheckpoint == log = "Loading graph from checkpoint"

\* C28: a run that finds a graph checkpoint it can load goes on with that
\* graph, whatever its nodes are and whatever the candidates are; until it
\* ends, such a run has no embeddings, builds nothing, leaves both checkpoint
\* files and the graph as they are, and computes the communities from the
\* loaded graph.
C28_GraphCheckpointUsedAsIs ==
    [][/\ (pc = "loaded" /\ candidate_df # <<>> /\ fs_graph.state = "complete" /\ pc' # "idle")
             => (/\ pc' = "detect"
                 /\ UsesGraphCheckpoint'
                 /\ similarity_graph' = pickle_load(fs_graph.data))
       /\ UsesGraphCheckpoint =>
             (/\ embeddings = <<>>
              /\ UNCHANGED <<fs_emb, fs_graph, embeddings>>
              /\ pc \notin {"save_emb", "write_emb", "build", "write_graph"}
              /\ pc' # "idle" => similarity_graph' = similarity_graph
              /\ pc = "detect" =>
                    (pc' = "idle" \/ parent_communities' \in best_partition(similarity_graph)))]_vars

\* A run is through with communities it computed from a graph checkpoint
\* whose nodes are not the candidates of the run.
C28_Witness ==
    /\ pc = "formatted"
    /\ UsesGraphCheckpoint
    /\ Range(similarity_graph.nodes) # Range(candidate_df)
    /\ Len(similarity_graph.nodes) = Len(candidate_df)
    /\ output_structure # <<>>
    /\ fs_emb.state = "complete"

\* The number of neighbours of v in the working subgraph.
Degree(sub, v) == Cardinality(adj(sub, v))

\* The nodes of the working subgraph that no node has more neighbours than.
MostNeighbours(sub) ==
    { t \in sub.nodes : \A v \in sub.nodes : Degree(sub, v) <= Degree(sub, t) }

\* C29: the hub of an accepted group is a node with the most neighbours of
\* all nodes remaining in the working subgraph; and in every pass, if some
\* remaining node can be a hub then every node with the most neighbours can,
\* so a scan that gets past the first candidate accepts nothing.
C29_HubHasMostNeighbours ==
    [][/\ AcceptsGroup =>
             sub_groups'[Len(sub_groups')].hub_cde_id \in MostNeighbours(community_subgraph)
       /\ pc = "hub_loop" =>
             ((\E v \in community_subgraph.nodes : CanBeHub(community_subgraph, v))
                 => \A t \in MostNeighbours(community_subgraph) :
                       CanBeHub(community_subgraph, t))]_vars

\* The first group of a community was accepted, and a member outside the
\* group that can be a hub as well has fewer neighbours than the hub.
C29_Witness ==
    /\ pc = "hub_loop"
    /\ Len(sub_groups) = 1
    /\ LET members == Range(parent_communities[comm_idx])
           sub == subgraph(similarity_graph, members)
           hub == sub_groups[1].hub_cde_id
       IN  \E v \in nodes_to_process :
              /\ Degree(sub, v) < Degree(sub, hub)
              /\ CanBeHub(sub, v)

\* The members of the hub-and-spoke groups accepted so far for the community
\* in hand.
AcceptedMembers ==
    UNION { Range(sub_groups[g].member_cde_ids) : g \in OfType(sub_groups, "hub_and_spoke") }

\* The partitioner is at work: lines 135-204.
InPartitioner == pc \in {"detect", "communities", "hub_loop", "orphans"}

\* C30: at the head of every pass of the loop of line 154 and at its exit,
\* nodes_to_process is the node set of the working copy, and both are the
\* community's members less the members of the hub-and-spoke groups accepted
\* so far for it; no step of the partitioner changes the graph it was given.
C30_WorkingCopyTracksRemaining ==
    [][/\ pc \in {"hub_loop", "orphans"} =>
             /\ nodes_to_process = community_subgraph.nodes
             /\ nodes_to_process = Range(parent_communities[comm_idx]) \ AcceptedMembers
       /\ pc' \in {"hub_loop", "orphans"} =>
             /\ nodes_to_process' = community_subgraph'.nodes
             /\ nodes_to_process' = Range(parent_communities'[comm_idx']) \ AcceptedMembers'
       /\ InPartitioner => similarity_graph' = similarity_graph]_vars

\* The loop was left after two groups were accepted, with nodes remaining.
C30_Witness ==
    /\ pc = "orphans"
    /\ Cardinality(OfType(sub_groups, "hub_and_spoke")) >= 2
    /\ nodes_to_process # {}
    /\ nodes_to_process # Range(parent_communities[comm_idx])

====
